---- MODULE Spec2Model ----
(***************************************************************************)
(* PrivacyEngine (opacus/privacy_engine.py): wiring of a model, an         *)
(* optimizer and a data loader into their DP-aware counterparts, the       *)
(* accountant hook that reports every optimizer step to the RDP            *)
(* accountant, and the epsilon query.                                      *)
(*                                                                         *)
(* The collaborators the engine calls (GradSampleModule, DPOptimizer,      *)
(* DPDataLoader, ModuleValidator, RDPAccountant, get_noise_multiplier)     *)
(* live in other files of the package; they are modelled here by the       *)
(* contracts the design document gives them.                               *)
(***************************************************************************)
EXTENDS Integers, Sequences, FiniteSets, TLC

\* ------------------------------------------------------------------ bounds
NumParams   == 2    \* trainable parameters of the module
MaxBatches  == 2    \* len(data_loader) ranges over 0..MaxBatches
MaxNoise    == 2    \* noise multipliers range over 0..MaxNoise
MaxAccum    == 3    \* micro-batches folded in before a flush
MaxUpdates  == 2    \* parameter updates followed per behaviour
MaxLedger   == 2    \* ledger entries followed per behaviour
DatasetSize == 4    \* len(data_loader.dataset)
MaxSigma    == 6    \* the calibrator searches noise multipliers 1..MaxSigma
MaxTarget   == 12   \* target epsilons range over 0..MaxTarget
MaxEpochs   == 2    \* epochs range over 1..MaxEpochs

Params      == 1..NumParams
NoiseLevels == 0..MaxNoise
LoaderLens  == 0..MaxBatches

VARIABLES
    module,       \* the nn.Module the caller holds
    optimizer,    \* the optimizer the caller holds
    data_loader,  \* the data loader the caller holds
    grad_sample,  \* grad_sample[p]: hasattr(p, "grad_sample")
    grad,         \* the parameters hold an aggregated .grad
    graph,        \* a forward pass has run and can be back-propagated
    params,       \* params[p]: number of updates parameter p received
    ledger,       \* self.accountant's privacy ledger
    mp,           \* the latest make_private call: was it made, its arguments, did it return
    outcome,      \* what the latest operation did
    queried,      \* the ledger length at the latest answered get_epsilon before this operation, -1 if none
    other         \* a second PrivacyEngine instance and the training run it was asked to make private

vars == <<module, optimizer, data_loader, grad_sample, grad, graph, params, ledger, mp,
          outcome, queried, other>>

\* ------------------------------------------------------------ value shapes
NoGradSample  == [p \in Params |-> FALSE]
AllGradSample == [p \in Params |-> TRUE]

\* What an operation reports: its name, the exception it raised ("none" when
\* it returned), its arguments and its return value.
Outcome(op, err, args, value) == [op |-> op, err |-> err, args |-> args, value |-> value]

RECURSIVE Gcd(_, _)
Gcd(a, b) == IF b = 0 THEN a ELSE Gcd(b, a % b)

\* A sample rate is the exact rational num/den in lowest terms: 1 / len(data_loader)
\* multiplied by an integer count. Equal rates are equal values.
Rate(num, den) ==
    LET g == Gcd(num, den)
    IN  IF g = 0 THEN [num |-> num, den |-> den] ELSE [num |-> num \div g, den |-> den \div g]

\* ------------------------------------------------------------ RDPAccountant
\* The candidate orders, in their fixed sequence.
Orders == <<2, 3, 5>>

\* delta is the rational d / DeltaDen; d ranges over Deltas.
DeltaDen == 2
Deltas   == 0..DeltaDen
RdpScale == 16   \* resolution of the integer RDP values

InvalidNoise(nm) == nm <= 0
InvalidRate(sr)  == ~(sr.den > 0 /\ 0 < sr.num /\ sr.num <= sr.den)
InvalidDelta(d)  == ~(0 < d /\ d < DeltaDen)

\* The step with the rate checked against zero alone.
accountant_step_rate_above_one(l, nm, sr) ==
    IF InvalidNoise(nm) \/ sr.num <= 0
    THEN [err |-> "InvalidParameter", ledger |-> l]
    ELSE [err |-> "none",
          ledger |-> Append(l, [noise_multiplier |-> nm, sample_rate |-> sr])]

\* RDPAccountant.step(noise_multiplier, sample_rate): rejects malformed
\* arguments before touching the ledger, else appends one entry.
accountant_step(l, nm, sr) ==
    IF InvalidNoise(nm) \/ InvalidRate(sr)
    THEN [err |-> "InvalidParameter", ledger |-> l]
    ELSE [err |-> "none",
          ledger |-> Append(l, [noise_multiplier |-> nm, sample_rate |-> sr])]

\* Single-step RDP of the subsampled Gaussian mechanism at order alpha: a
\* function of noise_multiplier, sample_rate and alpha alone, non-increasing
\* in the noise and non-decreasing in the rate (alpha * q^2 / (2 sigma^2),
\* in units of 1 / RdpScale).
rdp_step(nm, sr, alpha) ==
    (RdpScale * alpha * sr.num * sr.num) \div (2 * nm * nm * sr.den * sr.den)

\* The budget computed as if every step had the parameters of the latest one.
compute_rdp_latest(l, alpha) ==
    IF l = <<>> THEN 0
    ELSE Len(l) * rdp_step(l[Len(l)].noise_multiplier, l[Len(l)].sample_rate, alpha)

\* RdpBudget at one order: the sum over the ledger, entry by entry.
RECURSIVE compute_rdp(_, _)
compute_rdp(l, alpha) ==
    IF l = <<>> THEN 0
    ELSE rdp_step(Head(l).noise_multiplier, Head(l).sample_rate, alpha)
         + compute_rdp(Tail(l), alpha)

\* RDP-to-DP conversion at one order: rdp + log(1/delta) / (alpha - 1).
rdp_to_eps(rdp, d, alpha) == rdp + (RdpScale * (DeltaDen - d)) \div (alpha - 1)

eps_at(l, d, i) == rdp_to_eps(compute_rdp(l, Orders[i]), d, Orders[i])

\* RDPAccountant.get_privacy_spent(delta): (epsilon, achieving order), the
\* minimum over the orders and the first order that attains it.
get_privacy_spent(l, d) ==
    IF InvalidDelta(d) \/ l = <<>>
    THEN [err |-> "InvalidParameter", value |-> <<>>]
    ELSE LET best == CHOOSE i \in DOMAIN Orders :
                        /\ \A j \in DOMAIN Orders : eps_at(l, d, i) <= eps_at(l, d, j)
                        /\ \A j \in 1..(i - 1) : eps_at(l, d, j) > eps_at(l, d, i)
         IN  [err |-> "none", value |-> <<eps_at(l, d, best), Orders[best]>>]

\* ------------------------------------------------------- NoiseCalibrator
IterationCap   == 2   \* the search's iteration budget
SigmaTolerance == 1   \* the search stops once the bracket is this narrow

\* The ledger of `steps` steps, all at one noise multiplier and sample rate,
\* and the epsilon the accountant derives from it.
replay(sigma, sr, steps) ==
    [i \in 1..steps |-> [noise_multiplier |-> sigma, sample_rate |-> sr]]
replay_epsilon(sigma, d, sr, steps) ==
    get_privacy_spent(replay(sigma, sr, steps), d).value[1]

\* The binary search: epsilon at lo is above the target, epsilon at hi is
\* not; the bracket is halved until it is SigmaTolerance wide or the
\* iteration budget is spent.
RECURSIVE bisect(_, _, _, _, _, _, _)
bisect(target, d, sr, steps, lo, hi, iter) ==
    IF hi - lo <= SigmaTolerance
    THEN [status |-> "returned", sigma |-> hi, iters |-> iter]
    ELSE IF iter >= IterationCap
    THEN [status |-> "InfeasibleTarget", sigma |-> 0, iters |-> iter]
    ELSE LET mid == (lo + hi) \div 2
         IN  IF replay_epsilon(mid, d, sr, steps) <= target
             THEN bisect(target, d, sr, steps, lo, mid, iter + 1)
             ELSE bisect(target, d, sr, steps, mid, hi, iter + 1)

\* get_noise_multiplier(target_epsilon, target_delta, sample_rate, epochs,
\* alphas, sigma_min, sigma_max): the smallest noise multiplier of the
\* bracket that keeps epochs / sample_rate steps within the target. A bound
\* given as None (0 here) takes its default, 1 or MaxSigma. InfeasibleTarget
\* when sigma_max misses the target or sigma_min already meets it.
get_noise_multiplier(target, d, sr, epochs, sigma_min, sigma_max) ==
    LET lo == IF sigma_min = 0 THEN 1 ELSE sigma_min
        hi == IF sigma_max = 0 THEN MaxSigma ELSE sigma_max
        steps == (epochs * sr.den) \div sr.num
    IN  IF replay_epsilon(hi, d, sr, steps) > target
        THEN [status |-> "InfeasibleTarget", sigma |-> 0, iters |-> 0]
        ELSE IF replay_epsilon(lo, d, sr, steps) <= target
        THEN [status |-> "InfeasibleTarget", sigma |-> 0, iters |-> 0]
        ELSE bisect(target, d, sr, steps, lo, hi, 0)

\* ------------------------------------------------------------ PrivacyEngine
\* The query returning element 1 of the accountant's answer, the order.
get_epsilon_order(l, d) ==
    LET spent == get_privacy_spent(l, d)
    IN  IF spent.err # "none" THEN [err |-> spent.err, value |-> <<>>]
        ELSE [err |-> "none", value |-> spent.value[2]]

\* get_epsilon(delta, alphas): element 0 of the accountant's answer; the
\* accountant's exception propagates; alphas is not used.
get_epsilon(l, d) ==
    LET spent == get_privacy_spent(l, d)
    IN  IF spent.err # "none" THEN [err |-> spent.err, value |-> <<>>]
        ELSE [err |-> "none", value |-> spent.value[1]]

\* The attributes a PrivacyEngine instance has: those __init__ sets and the
\* methods of the class body.
PrivacyEngineAttributes ==
    {"accountant", "secure_mode", "is_compatible", "validate",
     "try_fix_incompatible_modules_", "make_private", "make_private_with_epsilon",
     "_prepare_model", "_prepare_optimizer", "_prepare_data_loader", "get_epsilon"}

\* self.<name> resolves when the instance has the attribute; otherwise the
\* lookup raises AttributeError.
HasAttr(name) == name \in PrivacyEngineAttributes

\* ModuleValidator.is_valid(module)
is_compatible(m) == m.valid

\* validate(module, optimizer, data_loader): raises where is_compatible says False.
validate(m) == IF is_compatible(m) THEN "none" ELSE "UnsupportedModuleError"

\* ModuleValidator.fix_(module): repairs the module in place.
try_fix_incompatible_modules_(m) == [m EXCEPT !.valid = TRUE]

\* GradSampleModule(module, ...)
GradSampleModule(m) == [m EXCEPT !.wrapped = TRUE]

\* _prepare_model: (fix and) validate, then wrap unless already wrapped.
\* The validation is reached through self.valiate, an attribute lookup.
_prepare_model(m, fix) ==
    LET fixed == IF fix THEN try_fix_incompatible_modules_(m) ELSE m
    IN  IF ~HasAttr("valiate") THEN [err |-> "AttributeError", module |-> fixed]
        ELSE IF validate(fixed) # "none" THEN [err |-> validate(fixed), module |-> fixed]
        ELSE IF fixed.wrapped THEN [err |-> "none", module |-> fixed]
        ELSE [err |-> "none", module |-> GradSampleModule(fixed)]

\* _prepare_data_loader: a DPDataLoader is kept, any other is converted.
_prepare_data_loader(dl) == IF dl.dp THEN dl ELSE [dl EXCEPT !.dp = TRUE]

\* _prepare_optimizer: a DPOptimizer is unwrapped to its base optimizer, and
\* the base optimizer is wrapped in a new DPOptimizer (no hooks, nothing
\* accumulated).
_prepare_optimizer(opt, nm, expected_batch_size) ==
    [dp |-> TRUE, noise_multiplier |-> nm, accumulated_iterations |-> 0,
     step_hooks |-> <<>>, expected_batch_size |-> expected_batch_size]

\* accountant_hook(optim): the closure over sample_rate that make_private
\* attaches; it reports sample_rate * optim.accumulated_iterations.
accountant_hook(sample_rate, opt, l) ==
    accountant_step(l, opt.noise_multiplier,
                    Rate(sample_rate.num * opt.accumulated_iterations, sample_rate.den))

\* forbid_accumulation_hook(module, _): raises when some parameter has a
\* grad_sample attribute.
forbid_accumulation_hook(gs) ==
    IF \E p \in Params : gs[p] THEN "ValueError" ELSE "none"

\* The rate taken per example of the dataset instead of per batch.
loader_sample_rate_per_example(dl) == Rate(1, dl.dataset)

\* sample_rate = 1 / len(data_loader)
loader_sample_rate(dl) == Rate(1, dl.len)

\* make_private: what the call raises and the triple the caller holds after it.
make_private(m, opt, dl, nm, poisson, fix) ==
    LET pm == _prepare_model(m, fix)
        dl1 == IF poisson THEN _prepare_data_loader(dl) ELSE dl
        sample_rate == loader_sample_rate(dl1)
        expected_batch_size == dl1.dataset \div dl1.len
        opt1 == _prepare_optimizer(opt, nm, expected_batch_size)
        opt2 == [opt1 EXCEPT !.step_hooks = Append(@, sample_rate)]
        m2 == IF poisson
              THEN [pm.module EXCEPT !.forward_pre_hooks = @ + 1]
              ELSE pm.module
    IN  IF pm.err # "none"
        THEN [err |-> pm.err, module |-> pm.module, optimizer |-> opt, data_loader |-> dl]
        ELSE IF dl1.len = 0
        THEN [err |-> "ZeroDivisionError", module |-> pm.module, optimizer |-> opt,
              data_loader |-> dl]
        ELSE [err |-> "none", module |-> m2, optimizer |-> opt2, data_loader |-> dl1]

NotSearched == [status |-> "not run", sigma |-> 0, iters |-> 0]

\* The call with the model prepared before the noise multiplier is computed.
make_private_with_epsilon_prepare_first(m, opt, dl, target, d, epochs, sigma_min, sigma_max, fix) ==
    LET pm == _prepare_model(m, fix)
        search == get_noise_multiplier(target, d, loader_sample_rate(dl), epochs,
                                       sigma_min, sigma_max)
        r == make_private(pm.module, opt, dl, search.sigma, TRUE, fix)
    IN  IF dl.len = 0
        THEN [err |-> "ZeroDivisionError", module |-> pm.module, optimizer |-> opt,
              data_loader |-> dl, search |-> NotSearched]
        ELSE IF search.status # "returned"
        THEN [err |-> search.status, module |-> pm.module, optimizer |-> opt,
              data_loader |-> dl, search |-> search]
        ELSE [err |-> r.err, module |-> r.module, optimizer |-> r.optimizer,
              data_loader |-> r.data_loader, search |-> search]

\* make_private_with_epsilon: sample_rate = 1 / len(data_loader), then the
\* noise multiplier from get_noise_multiplier (evaluated as an argument,
\* before make_private is entered), then make_private with Poisson sampling,
\* its default.
make_private_with_epsilon(m, opt, dl, target, d, epochs, sigma_min, sigma_max, fix) ==
    LET search == get_noise_multiplier(target, d, loader_sample_rate(dl), epochs,
                                       sigma_min, sigma_max)
        r == make_private(m, opt, dl, search.sigma, TRUE, fix)
    IN  IF dl.len = 0
        THEN [err |-> "ZeroDivisionError", module |-> m, optimizer |-> opt,
              data_loader |-> dl, search |-> NotSearched]
        ELSE IF search.status # "returned"
        THEN [err |-> search.status, module |-> m, optimizer |-> opt,
              data_loader |-> dl, search |-> search]
        ELSE [err |-> r.err, module |-> r.module, optimizer |-> r.optimizer,
              data_loader |-> r.data_loader, search |-> search]

\* ------------------------------------------------------------------ states
Modules == [wrapped : BOOLEAN, valid : BOOLEAN, forward_pre_hooks : {0}]

\* A plain optimizer, or a DPOptimizer the caller built.
PlainOptimizer ==
    [dp |-> FALSE, noise_multiplier |-> 0, accumulated_iterations |-> 0,
     step_hooks |-> <<>>, expected_batch_size |-> 0]
Optimizers ==
    {PlainOptimizer} \cup
    {[PlainOptimizer EXCEPT !.dp = TRUE, !.noise_multiplier = nm] : nm \in 1..MaxNoise}

DataLoaders == [dp : BOOLEAN, len : LoaderLens, dataset : {DatasetSize}]

NoCall == [called |-> FALSE, poisson |-> FALSE, noise_multiplier |-> 0, returned |-> FALSE]

\* A second engine right after construction (an empty ledger of its own),
\* with the triple m, opt, dl its caller holds and no operation issued yet.
Run(m, opt, dl) ==
    [module |-> m, optimizer |-> opt, data_loader |-> dl, grad_sample |-> NoGradSample,
     grad |-> FALSE, graph |-> FALSE, params |-> [p \in Params |-> 0], ledger |-> <<>>,
     mp |-> NoCall]

\* The second engine where only one engine is in use.
IdleRun ==
    Run([wrapped |-> FALSE, valid |-> TRUE, forward_pre_hooks |-> 0], PlainOptimizer,
        [dp |-> FALSE, len |-> 1, dataset |-> DatasetSize])

Init ==
    /\ module \in Modules
    /\ optimizer \in Optimizers
    /\ data_loader \in DataLoaders
    /\ grad_sample = NoGradSample
    /\ grad = FALSE
    /\ graph = FALSE
    /\ params = [p \in Params |-> 0]
    /\ ledger = <<>>
    /\ mp = NoCall
    /\ outcome = Outcome("init", "none", <<>>, <<>>)
    /\ queried = -1
    /\ other = IdleRun

\* ----------------------------------------------------------------- actions
\* engine.make_private(module, optimizer, data_loader, noise_multiplier, ...).
MakePrivate(nm, poisson, fix) ==
    \E r \in {make_private(module, optimizer, data_loader, nm, poisson, fix)} :
        /\ module' = r.module
        /\ optimizer' = r.optimizer
        /\ data_loader' = r.data_loader
        /\ mp' = [called |-> TRUE, poisson |-> poisson, noise_multiplier |-> nm,
                  returned |-> r.err = "none"]
        /\ outcome' = Outcome("make_private", r.err, <<nm, poisson, fix>>, <<>>)
        /\ UNCHANGED <<grad_sample, grad, graph, params, ledger, queried, other>>

\* engine.make_private_with_epsilon(module, optimizer, data_loader,
\* target_epsilon, target_delta, epochs, ..., sigma_min, sigma_max).
MakePrivateWithEpsilon(target, d, epochs, sigma_min, sigma_max, fix) ==
    \E r \in {make_private_with_epsilon(module, optimizer, data_loader, target, d, epochs,
                                         sigma_min, sigma_max, fix)} :
        /\ module' = r.module
        /\ optimizer' = r.optimizer
        /\ data_loader' = r.data_loader
        /\ mp' = IF r.search.status = "returned"
                 THEN [called |-> TRUE, poisson |-> TRUE,
                       noise_multiplier |-> r.search.sigma, returned |-> r.err = "none"]
                 ELSE mp
        /\ outcome' = Outcome("make_private_with_epsilon", r.err,
                              <<target, d, epochs, sigma_min, sigma_max, fix>>, r.search)
        /\ UNCHANGED <<grad_sample, grad, graph, params, ledger, queried, other>>

\* module(x): the forward pre-hooks run first; one that raises stops the pass.
Forward ==
    /\ mp.called
    /\ LET err == IF module.forward_pre_hooks > 0
                  THEN forbid_accumulation_hook(grad_sample) ELSE "none"
       IN  /\ graph' = IF err = "none" THEN TRUE ELSE graph
           /\ outcome' = Outcome("forward", err, <<>>, <<>>)
    /\ UNCHANGED <<module, optimizer, data_loader, grad_sample, grad, params, ledger, mp,
                   queried, other>>

\* loss.backward(retain_graph): every parameter gets its .grad; a
\* GradSampleModule also stores per-example gradients, one more micro-batch
\* for the DPOptimizer to fold in.
Backward(retain) ==
    /\ mp.called
    /\ graph
    /\ optimizer.accumulated_iterations < MaxAccum
    /\ graph' = retain
    /\ grad' = TRUE
    /\ grad_sample' = IF module.wrapped THEN AllGradSample ELSE grad_sample
    /\ optimizer' = IF module.wrapped /\ optimizer.dp
                    THEN [optimizer EXCEPT !.accumulated_iterations = @ + 1]
                    ELSE optimizer
    /\ outcome' = Outcome("backward", "none", <<retain>>, <<>>)
    /\ UNCHANGED <<module, data_loader, params, ledger, mp, queried, other>>

\* The step hooks in the order they were attached; the first that raises
\* ends the run.
RECURSIVE run_step_hooks(_, _, _)
run_step_hooks(hooks, opt, l) ==
    IF hooks = <<>> THEN [err |-> "none", ledger |-> l]
    ELSE LET r == accountant_hook(Head(hooks), opt, l)
         IN  IF r.err # "none" THEN r ELSE run_step_hooks(Tail(hooks), opt, r.ledger)

\* DPOptimizer.step(): a flush. With nothing folded in the step is skipped.
\* Otherwise the base optimizer updates every parameter, the step hooks run,
\* and the accumulation state and the per-example gradients are cleared.
dp_step(opt, l) ==
    IF opt.accumulated_iterations = 0
    THEN [err |-> "none", updated |-> FALSE, ledger |-> l, optimizer |-> opt]
    ELSE LET h == run_step_hooks(opt.step_hooks, opt, l)
         IN  [err |-> h.err, updated |-> TRUE, ledger |-> h.ledger,
              optimizer |-> [opt EXCEPT !.accumulated_iterations = 0]]

\* optimizer.step()
OptimizerStep ==
    /\ mp.called
    /\ \A p \in Params : params[p] < MaxUpdates
    /\ Len(ledger) + Len(optimizer.step_hooks) <= MaxLedger
    /\ IF optimizer.dp
       THEN \E r \in {dp_step(optimizer, ledger)} :
                /\ params' = IF r.updated THEN [p \in Params |-> params[p] + 1] ELSE params
                /\ ledger' = r.ledger
                /\ optimizer' = r.optimizer
                /\ grad_sample' = IF r.updated THEN NoGradSample ELSE grad_sample
                /\ outcome' = Outcome("step", r.err,
                                      <<optimizer.accumulated_iterations>>, r.updated)
       ELSE /\ params' = IF grad THEN [p \in Params |-> params[p] + 1] ELSE params
            /\ outcome' = Outcome("step", "none", <<0>>, grad)
            /\ UNCHANGED <<ledger, optimizer, grad_sample>>
    /\ UNCHANGED <<module, data_loader, grad, graph, mp, queried, other>>

\* optimizer.zero_grad(): drops .grad; a DPOptimizer also drops the
\* per-example gradients and what it accumulated.
ZeroGrad ==
    /\ mp.called
    /\ grad' = FALSE
    /\ grad_sample' = IF optimizer.dp THEN NoGradSample ELSE grad_sample
    /\ optimizer' = IF optimizer.dp
                    THEN [optimizer EXCEPT !.accumulated_iterations = 0]
                    ELSE optimizer
    /\ outcome' = Outcome("zero_grad", "none", <<>>, <<>>)
    /\ UNCHANGED <<module, data_loader, graph, params, ledger, mp, queried, other>>

\* engine.accountant.step(noise_multiplier, sample_rate) with the values an
\* accountant hook computes: the optimizer's noise multiplier and
\* (1 / len(data_loader)) * accumulated_iterations.
AccountantStep(nm, k, n) ==
    /\ Len(ledger) < MaxLedger
    /\ \E r \in {accountant_step(ledger, nm, Rate(k, n))} :
           /\ ledger' = r.ledger
           /\ outcome' = Outcome("accountant.step", r.err, <<nm, Rate(k, n)>>, <<>>)
    /\ queried' = IF outcome.op = "get_epsilon" /\ outcome.err = "none"
                  THEN Len(ledger) ELSE queried
    /\ UNCHANGED <<module, optimizer, data_loader, grad_sample, grad, graph, params, mp,
                   other>>

\* engine.get_epsilon(delta)
GetEpsilon(d) ==
    /\ \E r \in {get_epsilon(ledger, d)} :
           outcome' = Outcome("get_epsilon", r.err, <<d>>, r.value)
    /\ queried' = IF outcome.op = "get_epsilon" /\ outcome.err = "none"
                  THEN Len(ledger) ELSE queried
    /\ UNCHANGED <<module, optimizer, data_loader, grad_sample, grad, graph, params,
                   ledger, mp, other>>

\* ------------------------------------------- actions of the second engine
\* The same operations issued on the second engine and on the triple its
\* caller holds; its accountant is other.ledger, the one its __init__ made.
first == <<module, optimizer, data_loader, grad_sample, grad, graph, params, ledger, mp,
           queried>>

\* engine2.make_private(module2, optimizer2, data_loader2, noise_multiplier, ...)
OtherMakePrivate(nm, poisson, fix) ==
    \E r \in {make_private(other.module, other.optimizer, other.data_loader, nm, poisson,
                           fix)} :
        /\ other' = [other EXCEPT !.module = r.module, !.optimizer = r.optimizer,
                                  !.data_loader = r.data_loader,
                                  !.mp = [called |-> TRUE, poisson |-> poisson,
                                          noise_multiplier |-> nm,
                                          returned |-> r.err = "none"]]
        /\ outcome' = Outcome("other.make_private", r.err, <<nm, poisson, fix>>, <<>>)
        /\ UNCHANGED first

\* module2(x)
OtherForward ==
    /\ other.mp.called
    /\ LET err == IF other.module.forward_pre_hooks > 0
                  THEN forbid_accumulation_hook(other.grad_sample) ELSE "none"
       IN  /\ other' = [other EXCEPT !.graph = IF err = "none" THEN TRUE ELSE @]
           /\ outcome' = Outcome("other.forward", err, <<>>, <<>>)
    /\ UNCHANGED first

\* loss2.backward(retain_graph)
OtherBackward(retain) ==
    /\ other.mp.called
    /\ other.graph
    /\ other.optimizer.accumulated_iterations < MaxAccum
    /\ other' = [other EXCEPT
           !.graph = retain,
           !.grad = TRUE,
           !.grad_sample = IF other.module.wrapped THEN AllGradSample ELSE @,
           !.optimizer = IF other.module.wrapped /\ other.optimizer.dp
                         THEN [@ EXCEPT !.accumulated_iterations = @ + 1]
                         ELSE @]
    /\ outcome' = Outcome("other.backward", "none", <<retain>>, <<>>)
    /\ UNCHANGED first

\* optimizer2.step()
OtherOptimizerStep ==
    /\ other.mp.called
    /\ \A p \in Params : other.params[p] < MaxUpdates
    /\ Len(other.ledger) + Len(other.optimizer.step_hooks) <= MaxLedger
    /\ IF other.optimizer.dp
       THEN \E r \in {dp_step(other.optimizer, other.ledger)} :
                /\ other' = [other EXCEPT
                       !.params = IF r.updated THEN [p \in Params |-> @[p] + 1] ELSE @,
                       !.ledger = r.ledger,
                       !.optimizer = r.optimizer,
                       !.grad_sample = IF r.updated THEN NoGradSample ELSE @]
                /\ outcome' = Outcome("other.step", r.err,
                                      <<other.optimizer.accumulated_iterations>>, r.updated)
       ELSE /\ other' = [other EXCEPT
                       !.params = IF other.grad THEN [p \in Params |-> @[p] + 1] ELSE @]
            /\ outcome' = Outcome("other.step", "none", <<0>>, other.grad)
    /\ UNCHANGED first

\* optimizer2.zero_grad()
OtherZeroGrad ==
    /\ other.mp.called
    /\ other' = [other EXCEPT
           !.grad = FALSE,
           !.grad_sample = IF other.optimizer.dp THEN NoGradSample ELSE @,
           !.optimizer = IF other.optimizer.dp
                         THEN [@ EXCEPT !.accumulated_iterations = 0]
                         ELSE @]
    /\ outcome' = Outcome("other.zero_grad", "none", <<>>, <<>>)
    /\ UNCHANGED first

\* engine2.get_epsilon(delta)
OtherGetEpsilon(d) ==
    /\ \E r \in {get_epsilon(other.ledger, d)} :
           outcome' = Outcome("other.get_epsilon", r.err, <<d>>, r.value)
    /\ UNCHANGED <<first, other>>

Next ==
    \/ \E nm \in NoiseLevels, poisson \in BOOLEAN, fix \in BOOLEAN :
          MakePrivate(nm, poisson, fix)
    \/ Forward
    \/ \E retain \in BOOLEAN : Backward(retain)
    \/ OptimizerStep
    \/ ZeroGrad

Spec == Init /\ [][Next]_vars

\* The accountant on its own: an engine right after construction, steps
\* reported to its accountant and epsilon queries.
InitAccountant ==
    /\ module = [wrapped |-> FALSE, valid |-> TRUE, forward_pre_hooks |-> 0]
    /\ optimizer = PlainOptimizer
    /\ data_loader = [dp |-> FALSE, len |-> 1, dataset |-> DatasetSize]
    /\ grad_sample = NoGradSample
    /\ grad = FALSE
    /\ graph = FALSE
    /\ params = [p \in Params |-> 0]
    /\ ledger = <<>>
    /\ mp = NoCall
    /\ outcome = Outcome("init", "none", <<>>, <<>>)
    /\ queried = -1
    /\ other = IdleRun

NextAccountant ==
    \/ \E nm \in NoiseLevels, n \in 1..MaxBatches :
          \E k \in 0..(n + 1) : AccountantStep(nm, k, n)
    \/ \E d \in Deltas : GetEpsilon(d)

SpecAccountant == InitAccountant /\ [][NextAccountant]_vars

\* Calibrated setup: a fresh engine, a plain optimizer, an unwrapped module,
\* any data loader, and one make_private_with_epsilon call with well-formed
\* arguments (delta in (0, 1), at least one epoch, a bracket with
\* sigma_min <= sigma_max).
InitCalibration ==
    /\ module \in [wrapped : {FALSE}, valid : BOOLEAN, forward_pre_hooks : {0}]
    /\ optimizer = PlainOptimizer
    /\ data_loader \in [dp : {FALSE}, len : LoaderLens, dataset : {DatasetSize}]
    /\ grad_sample = NoGradSample
    /\ grad = FALSE
    /\ graph = FALSE
    /\ params = [p \in Params |-> 0]
    /\ ledger = <<>>
    /\ mp = NoCall
    /\ outcome = Outcome("init", "none", <<>>, <<>>)
    /\ queried = -1
    /\ other = IdleRun

NextCalibration ==
    /\ outcome.op = "init"
    /\ \E target \in 0..MaxTarget, d \in 1..(DeltaDen - 1), epochs \in 1..MaxEpochs,
          sigma_min \in 0..MaxSigma, sigma_max \in 0..MaxSigma, fix \in BOOLEAN :
          /\ sigma_max = 0 \/ sigma_min <= sigma_max
          /\ MakePrivateWithEpsilon(target, d, epochs, sigma_min, sigma_max, fix)

SpecCalibration == InitCalibration /\ [][NextCalibration]_vars

\* Two engines in one process, each asked to make its own training run
\* private: modules the validator accepts, wrapped by their callers or not,
\* plain optimizers or DPOptimizers, loaders of one batch; the operations of
\* the two runs interleave freely.
TwoEngineModules == [wrapped : BOOLEAN, valid : {TRUE}, forward_pre_hooks : {0}]
TwoEngineOptimizers == {PlainOptimizer, [PlainOptimizer EXCEPT !.dp = TRUE, !.noise_multiplier = 1]}
TwoEngineLoader == [dp |-> FALSE, len |-> 1, dataset |-> DatasetSize]

InitTwoEngines ==
    /\ module \in TwoEngineModules
    /\ optimizer \in TwoEngineOptimizers
    /\ data_loader = TwoEngineLoader
    /\ grad_sample = NoGradSample
    /\ grad = FALSE
    /\ graph = FALSE
    /\ params = [p \in Params |-> 0]
    /\ ledger = <<>>
    /\ mp = NoCall
    /\ outcome = Outcome("init", "none", <<>>, <<>>)
    /\ queried = -1
    /\ other \in {Run(m, opt, TwoEngineLoader) : m \in TwoEngineModules,
                                                  opt \in TwoEngineOptimizers}

NextTwoEngines ==
    \/ \E poisson \in BOOLEAN : MakePrivate(1, poisson, FALSE)
    \/ Forward
    \/ \E retain \in BOOLEAN : Backward(retain)
    \/ OptimizerStep
    \/ ZeroGrad
    \/ \E d \in Deltas : GetEpsilon(d)
    \/ \E poisson \in BOOLEAN : OtherMakePrivate(1, poisson, FALSE)
    \/ OtherForward
    \/ \E retain \in BOOLEAN : OtherBackward(retain)
    \/ OtherOptimizerStep
    \/ OtherZeroGrad
    \/ \E d \in Deltas : OtherGetEpsilon(d)

SpecTwoEngines == InitTwoEngines /\ [][NextTwoEngines]_vars

\* ------------------------------------------------- claims about training
\* make_private was called with arguments it has no reason to reject: a
\* positive noise multiplier, a module the validator accepts (as it is or
\* after the fix) and a data loader with at least one batch.
WellFormedCall ==
    mp.called /\ mp.noise_multiplier > 0 /\ module.valid /\ data_loader.len > 0

\* C1: after a make_private call with Poisson sampling, a forward pass that
\* starts while some parameter still holds per-example gradients of an
\* un-flushed batch raises an error instead of running.
C1_StaleForwardRaises ==
    (WellFormedCall /\ mp.poisson /\ outcome.op = "forward"
        /\ \E p \in Params : grad_sample[p])
    => outcome.err # "none"

\* C2: after a make_private call with fixed-size sampling, a flush of k >= 1
\* folded micro-batches succeeds and the ledger entry it appends has
\* sample_rate = k * (1 / len(data_loader)).
C2_FixedSamplingRate ==
    (WellFormedCall /\ ~mp.poisson /\ optimizer.dp
        /\ outcome.op = "step" /\ outcome.args[1] >= 1)
    => /\ outcome.err = "none"
       /\ ledger # <<>>
       /\ ledger[Len(ledger)].sample_rate = Rate(outcome.args[1], data_loader.len)

\* C3: a flush is atomic: either every parameter received the noised update
\* and exactly one ledger entry was appended, or no parameter changed and no
\* ledger entry was appended.
C3_FlushAtomic ==
    [][(WellFormedCall /\ outcome'.op = "step" /\ optimizer.dp)
        => \/ /\ \A p \in Params : params'[p] = params[p] + 1
              /\ Len(ledger') = Len(ledger) + 1
              /\ SubSeq(ledger', 1, Len(ledger)) = ledger
           \/ /\ params' = params
              /\ ledger' = ledger]_vars

\* C4: the ledger is append-only and grows by exactly one entry per flush
\* that updated parameters: a step that updates the parameters appends one
\* entry after the entries already there, every other step leaves the
\* ledger as it is.
C4_LedgerCountsFlushes ==
    [][(WellFormedCall /\ optimizer.dp) =>
       IF params' # params
       THEN \E e \in [noise_multiplier : NoiseLevels,
                       sample_rate : {ledger'[i].sample_rate : i \in DOMAIN ledger'}] :
                ledger' = Append(ledger, e)
       ELSE ledger' = ledger]_vars

\* C5: for a module the validator accepts (as it is, or after the optional
\* fix) make_private returns the wrapped triple, the returned optimizer has
\* the accountant hook attached, and the call took no training step and
\* appended nothing to the ledger.
C5_MakePrivateReturns ==
    [][(outcome'.op = "make_private" /\ mp'.noise_multiplier > 0 /\ module'.valid
          /\ data_loader.len > 0)
        => /\ outcome'.err = "none"
           /\ mp'.returned
           /\ module'.wrapped
           /\ optimizer'.dp
           /\ optimizer'.step_hooks # <<>>
           /\ (mp'.poisson => data_loader'.dp)
           /\ params' = params
           /\ ledger' = ledger]_vars

\* --------------------------------------------- claims about the accountant
Permuted(l, f) == [i \in DOMAIN l |-> l[f[i]]]
PermutationsOf(n) == {f \in [1..n -> 1..n] : \A i, j \in 1..n : f[i] = f[j] => i = j}

\* C6: composition is order-invariant: what get_epsilon returned for the
\* ledger is what it returns for every permutation of the ledger, and
\* get_privacy_spent gives every permutation the same (epsilon, order).
C6_OrderInvariant ==
    (outcome.op = "get_epsilon" /\ outcome.err = "none")
    => \A f \in PermutationsOf(Len(ledger)) :
          /\ get_epsilon(Permuted(ledger, f), outcome.args[1]).value = outcome.value
          /\ get_privacy_spent(Permuted(ledger, f), outcome.args[1])
                = get_privacy_spent(ledger, outcome.args[1])

\* A query answered on a ledger whose entries differ, so that a permutation
\* changes the sequence.
C6_Witness ==
    /\ outcome.op = "get_epsilon" /\ outcome.err = "none"
    /\ Len(ledger) >= 2
    /\ \E i, j \in DOMAIN ledger :
          /\ ledger[i].noise_multiplier # ledger[j].noise_multiplier
          /\ ledger[i].sample_rate # ledger[j].sample_rate

\* C7: the accountant's step fails with InvalidParameter whenever
\* noise_multiplier <= 0 or sample_rate is outside (0, 1], and then the
\* ledger is exactly as it was; this covers what the accountant hook passes,
\* sample_rate = accumulated_iterations / len(data_loader).
C7_StepRejectsInvalid ==
    [][(outcome'.op = "accountant.step"
          /\ \/ outcome'.args[1] <= 0
             \/ outcome'.args[2].num <= 0
             \/ outcome'.args[2].num > outcome'.args[2].den)
        => (outcome'.err = "InvalidParameter" /\ ledger' = ledger)]_vars

\* A rejected step whose rate is more accumulated micro-batches than the
\* loader has batches, on a ledger that already holds an entry.
C7_Witness ==
    /\ outcome.op = "accountant.step" /\ outcome.err = "InvalidParameter"
    /\ outcome.args[1] > 0
    /\ outcome.args[2].num > outcome.args[2].den
    /\ ledger # <<>>

\* C8: get_epsilon(delta) fails with InvalidParameter when delta is outside
\* (0, 1) or the ledger is empty; it never changes the ledger; and a query
\* that succeeds returns the epsilon of the ledger as it is at the query.
C8_QueryIsFresh ==
    [][outcome'.op = "get_epsilon"
        => /\ ledger' = ledger
           /\ IF outcome'.args[1] <= 0 \/ outcome'.args[1] >= DeltaDen \/ ledger = <<>>
              THEN outcome'.err = "InvalidParameter"
              ELSE /\ outcome'.err = "none"
                   /\ outcome'.value = get_privacy_spent(ledger', outcome'.args[1]).value[1]]_vars

\* A query answered after the ledger grew since an earlier answered query,
\* where the ledger of the earlier query gives another epsilon.
C8_Witness ==
    /\ outcome.op = "get_epsilon" /\ outcome.err = "none"
    /\ queried >= 1
    /\ queried < Len(ledger)
    /\ get_epsilon(SubSeq(ledger, 1, queried), outcome.args[1]).value # outcome.value

\* --------------------------------------------- claims about calibration
\* C9: the noise multiplier make_private_with_epsilon obtains from the
\* calibrator, replayed through an accountant for epochs / sample_rate steps
\* at sample_rate = 1 / len(data_loader), gives epsilon <= target_epsilon,
\* and every noise multiplier smaller by more than the search tolerance
\* gives epsilon > target_epsilon.
C9_CalibrationInverse ==
    (outcome.op = "make_private_with_epsilon" /\ outcome.value.status = "returned")
    => LET target == outcome.args[1]
           d      == outcome.args[2]
           steps  == outcome.args[3] * data_loader.len
           sr     == [num |-> 1, den |-> data_loader.len]
           spent(sigma) ==
               get_privacy_spent([i \in 1..steps |->
                   [noise_multiplier |-> sigma, sample_rate |-> sr]], d).value[1]
       IN  /\ spent(outcome.value.sigma) <= target
           /\ \A sigma \in 1..(outcome.value.sigma - SigmaTolerance - 1) :
                 spent(sigma) > target

\* A calibration that returned a noise multiplier with smaller ones more
\* than the tolerance below it, after a search of at least one halving.
C9_Witness ==
    /\ outcome.op = "make_private_with_epsilon"
    /\ outcome.value.status = "returned"
    /\ outcome.value.iters >= 1
    /\ outcome.value.sigma - SigmaTolerance - 1 >= 1

\* C10: the calibration search ends within its iteration budget, with a
\* noise multiplier or with InfeasibleTarget, and on InfeasibleTarget
\* make_private_with_epsilon has wrapped nothing and appended nothing.
C10_SearchBounded ==
    [][outcome'.op = "make_private_with_epsilon"
        => /\ outcome'.value.status \in {"returned", "InfeasibleTarget", "not run"}
           /\ outcome'.value.iters <= IterationCap
           /\ (outcome'.value.status = "not run") = (data_loader.len = 0)
           /\ outcome'.value.status = "InfeasibleTarget"
                 => /\ outcome'.err = "InfeasibleTarget"
                    /\ module' = module
                    /\ optimizer' = optimizer
                    /\ data_loader' = data_loader
                    /\ ledger' = ledger
                    /\ mp' = mp]_vars

\* A search that spent its whole budget and failed, on a module the fix
\* would have changed.
C10_Witness ==
    /\ outcome.op = "make_private_with_epsilon"
    /\ outcome.err = "InfeasibleTarget"
    /\ outcome.value.iters = IterationCap
    /\ outcome.args[6]
    /\ ~module.valid

C13_PoissonNoAccumulation ==
    (WellFormedCall /\ mp.poisson /\ optimizer.dp)
    => /\ \A i \in DOMAIN ledger : ledger[i].sample_rate = Rate(1, data_loader.len)
       /\ (outcome.op = "step" /\ outcome.value = TRUE) => outcome.args[1] = 1

\* C14: re-wrapping is idempotent: make_private called again, with an already
\* wrapped module, DPOptimizer and DPDataLoader returns, gives back the
\* module and the data loader as they are, gives back a DPOptimizer wrapped
\* anew (nothing accumulated, exactly one accountant hook, so that a flush
\* appends one entry), and the forward pass is guarded against accumulation
\* exactly when this latest call asked for Poisson sampling.
C14_RewrapIdempotent ==
    [][(mp.called /\ outcome'.op = "make_private" /\ mp'.noise_multiplier > 0
          /\ module.valid /\ module.wrapped /\ optimizer.dp
          /\ data_loader.dp /\ data_loader.len > 0)
        => /\ outcome'.err = "none"
           /\ module'.wrapped = module.wrapped
           /\ module'.valid = module.valid
           /\ data_loader' = data_loader
           /\ optimizer'.dp
           /\ optimizer'.accumulated_iterations = 0
           /\ Len(optimizer'.step_hooks) = 1
           /\ (module'.forward_pre_hooks > 0) = mp'.poisson]_vars

\* ---------------------------------------------- claims about two engines
OtherWellFormedCall ==
    /\ other.mp.called /\ other.mp.noise_multiplier > 0
    /\ other.module.valid /\ other.data_loader.len > 0

====
